---- MODULE Spec2Model ----
(***************************************************************************)
(* Loan approval predictor (app.py): a Streamlit script.  Every user       *)
(* interaction re-executes the script from its first line: the model file  *)
(* check, joblib.load, the form, the advisory warnings, and, when the      *)
(* Predict button was the interaction, the try/except prediction pipeline. *)
(*                                                                         *)
(* Numbers (Python int and float alike) are exact fractions <<num, den>>   *)
(* in lowest terms with den > 0.  A single-row DataFrame is the sequence   *)
(* of its columns, each [col |-> name, val |-> fraction].  Python None is  *)
(* the empty sequence, a value v that is present is <<v>>.                 *)
(***************************************************************************)
EXTENDS Integers, Sequences, FiniteSets, TLC

VARIABLES
    modelFile,    \* the artifact at MODEL_PATH (exists, feature names, predict_proba)
    widgets,      \* current values of the eleven input widgets
    button,       \* value st.button("Predict") returns in the current run
    pc,           \* position of the current script run
    model,        \* the script's global `model`
    rendered,     \* UI elements rendered by the current run, in order
    concat_df,    \* input_df after pd.concat (line 94)
    input_df,     \* input_df after the reindex (line 103)
    predict_arg,  \* argument of model.predict in this run, None before the call
    prediction,   \* label returned by model.predict
    proba,        \* positive-class probability, None when absent
    error,        \* exception raised inside the try block
    fatal         \* message of an exception that left the script

vars == <<modelFile, widgets, button, pc, model, rendered, concat_df,
          input_df, predict_arg, prediction, proba, error, fatal>>

None == <<>>

----------------------------------------------------------------------------
(* Fractions *)

Abs(n) == IF n < 0 THEN -n ELSE n

RECURSIVE GCD(_, _)
GCD(a, b) == IF b = 0 THEN a ELSE GCD(b, a % b)

\* n / d for d # 0, in lowest terms with a positive denominator
Frac(n, d) ==
    LET g == GCD(Abs(n), Abs(d))
        s == IF d < 0 THEN -1 ELSE 1
    IN  <<(s * n) \div g, (s * d) \div g>>

Num(n) == <<n, 1>>

Zero == Num(0)
One == Num(1)

Leq(a, b) == a[1] * b[2] <= b[1] * a[2]

Max(a, b) == IF a >= b THEN a ELSE b

----------------------------------------------------------------------------
(* Widget bounds, defaults and options (lines 30-43) *)

PersonAgeMin == 18
PersonAgeDefault == 30
PersonIncomeMin == 10000
PersonIncomeDefault == 50000
EmpLengthDefault == 5
CredHistDefault == 10
LoanAmntMin == 5000
LoanAmntDefault == 10000
LoanIntRateDefault == Frac(25, 2)
LoanPercentIncomeDefault == Frac(1, 5)

HomeOwnershipOptions == <<"OWN", "RENT", "MORTGAGE", "OTHER">>
DefaultOnFileOptions == <<"Y", "N">>
LoanIntentOptions ==
    <<"EDUCATION", "MEDICAL", "VENTURE", "PERSONAL", "HOMEIMPROVEMENT",
      "DEBTCONSOLIDATION">>
LoanGradeOptions == <<"A", "B", "C", "D", "E", "F", "G">>

Range(s) == {s[i] : i \in DOMAIN s}

\* state of the widgets on the first run: number_input value=, selectbox index 0
DefaultWidgets ==
    [person_age |-> PersonAgeDefault,
     person_income |-> PersonIncomeDefault,
     person_emp_length |-> EmpLengthDefault,
     person_home_ownership |-> HomeOwnershipOptions[1],
     cb_person_default_on_file |-> DefaultOnFileOptions[1],
     cb_person_cred_hist_length |-> CredHistDefault,
     loan_intent |-> LoanIntentOptions[1],
     loan_grade |-> LoanGradeOptions[1],
     loan_amnt |-> LoanAmntDefault,
     loan_int_rate |-> LoanIntRateDefault,
     loan_percent_income |-> LoanPercentIncomeDefault]

\* values the user enters; every one is inside its widget's bounds
AgeValues == {PersonAgeMin, PersonAgeDefault}
IncomeValues == {PersonIncomeMin, PersonIncomeDefault}
LoanAmntValues == {LoanAmntMin, LoanAmntDefault}

----------------------------------------------------------------------------
(* Advisory warnings (lines 45-59) *)

WarnAgeLow == 20
WarnAgeHigh == 75
WarnIncomeMin == 10000
WarnEmpHigh == 50
WarnLoanAmntMin == 5000
WarnRateLow == 5
WarnRateHigh == 25

Warnings(w) ==
    (IF ~(WarnAgeLow <= w.person_age /\ w.person_age <= WarnAgeHigh)
       THEN <<"warning:Age should be between 20 and 75 years.">> ELSE <<>>)
    \o (IF ~(w.person_income >= WarnIncomeMin)
       THEN <<"warning:Income should be atleast 10000.">> ELSE <<>>)
    \o (IF ~(0 <= w.person_emp_length /\ w.person_emp_length <= WarnEmpHigh)
       THEN <<"warning:Employment length should be between 0 and 50 years.">>
       ELSE <<>>)
    \o (IF ~(w.loan_amnt >= WarnLoanAmntMin)
       THEN <<"warning:Loan amount should be atleast 5000.">> ELSE <<>>)
    \o (IF ~(Leq(Num(WarnRateLow), w.loan_int_rate)
             /\ Leq(w.loan_int_rate, Num(WarnRateHigh)))
       THEN <<"warning:Interest rate should be between 5% and 25%.">>
       ELSE <<>>)

\* title, intro, the two columns of controls (lines 19-43)
FormElements ==
    <<"title:Loan Approval Prediction",
      "write:Fill in the details below",
      "subheader:Personal Info",
      "number_input:Person Age",
      "number_input:Person Income",
      "number_input:Employment Length (years)",
      "selectbox:Home Ownership",
      "selectbox:Default on File",
      "number_input:Credit History Length (years)",
      "subheader:Loan Info",
      "selectbox:Loan Intent",
      "selectbox:Loan Grade",
      "number_input:Loan Amount",
      "number_input:Loan Interest Rate (%)",
      "number_input:Loan Percent Income">>

PredictButton == "button:Predict"

----------------------------------------------------------------------------
(* Feature assembly (lines 67-94) *)

Column(c, v) == [col |-> c, val |-> v]

Columns(df) == [i \in DOMAIN df |-> df[i].col]

HasCol(df, c) == \E i \in DOMAIN df : df[i].col = c

\* value of the first column named c
Lookup(df, c) == df[CHOOSE i \in DOMAIN df :
                       df[i].col = c /\ \A j \in 1..(i - 1) : df[j].col # c].val

\* line 67
DefaultOnFileBin(flag) == IF flag = "Y" THEN 1 ELSE 0

\* the divisor without its floor
Divisor_unguarded(income) == income

\* the divisor of line 68
Divisor(income) == Max(income, 1)

\* lines 71-81 with the age forced into the advisory range
NumericDf_clamped(w, bin, ratio) ==
    <<Column("person_age", Num(Max(w.person_age, 20))),
      Column("person_income", Num(w.person_income)),
      Column("person_emp_length", Num(w.person_emp_length)),
      Column("loan_amnt", Num(w.loan_amnt)),
      Column("loan_int_rate", w.loan_int_rate),
      Column("loan_percent_income", w.loan_percent_income),
      Column("cb_person_cred_hist_length", Num(w.cb_person_cred_hist_length)),
      Column("cb_person_default_on_file", Num(bin)),
      Column("debt_to_income_ratio", ratio)>>

\* lines 71-81
NumericDf(w, bin, ratio) ==
    <<Column("person_age", Num(w.person_age)),
      Column("person_income", Num(w.person_income)),
      Column("person_emp_length", Num(w.person_emp_length)),
      Column("loan_amnt", Num(w.loan_amnt)),
      Column("loan_int_rate", w.loan_int_rate),
      Column("loan_percent_income", w.loan_percent_income),
      Column("cb_person_cred_hist_length", Num(w.cb_person_cred_hist_length)),
      Column("cb_person_default_on_file", Num(bin)),
      Column("debt_to_income_ratio", ratio)>>

\* lines 84-88: the categorical columns and the value of the single row
CatDf(w) ==
    <<[name |-> "person_home_ownership", value |-> w.person_home_ownership],
      [name |-> "loan_intent", value |-> w.loan_intent],
      [name |-> "loan_grade", value |-> w.loan_grade]>>

\* indicators named by the bare value, without the column prefix
GetDummies_noprefix(cat) ==
    [i \in DOMAIN cat |-> Column(cat[i].value, One)]

\* pd.get_dummies on one row: per column one indicator, for the value seen,
\* named <column>_<value>
GetDummies(cat) ==
    [i \in DOMAIN cat |-> Column(cat[i].name \o "_" \o cat[i].value, One)]

\* pd.concat(axis=1)
Concat(a, b) == a \o b

----------------------------------------------------------------------------
(* Alignment to the model's columns (lines 97-103) *)

\* the fill loop writing 1 instead of 0
RECURSIVE AddMissing_ones(_, _)
AddMissing_ones(df, cols) ==
    IF cols = <<>> THEN df
    ELSE AddMissing_ones(IF HasCol(df, Head(cols)) THEN df
                         ELSE Append(df, Column(Head(cols), One)),
                         Tail(cols))

\* lines 98-100
RECURSIVE AddMissing(_, _)
AddMissing(df, cols) ==
    IF cols = <<>> THEN df
    ELSE AddMissing(IF HasCol(df, Head(cols)) THEN df
                    ELSE Append(df, Column(Head(cols), Zero)),
                    Tail(cols))

\* the reindex left out: the frame keeps its own columns and order
Reindex_skipped(df, cols) == df

\* line 103, for cols all present in df
Reindex(df, cols) ==
    [i \in DOMAIN cols |-> Column(cols[i], Lookup(df, cols[i]))]

----------------------------------------------------------------------------
(* The model artifact.  It is not part of the repository: its expected     *)
(* columns and its behaviour are inputs of the script.                      *)

NumericNames ==
    <<"person_age", "person_income", "person_emp_length", "loan_amnt",
      "loan_int_rate", "loan_percent_income", "cb_person_cred_hist_length",
      "cb_person_default_on_file", "debt_to_income_ratio">>

IndicatorNames(prefix, options) ==
    [i \in DOMAIN options |-> prefix \o "_" \o options[i]]

\* every indicator column get_dummies can produce from the form's options
AllIndicators ==
    IndicatorNames("person_home_ownership", HomeOwnershipOptions)
    \o IndicatorNames("loan_intent", LoanIntentOptions)
    \o IndicatorNames("loan_grade", LoanGradeOptions)

\* trained on all numeric columns and all indicators
SchemaFull == NumericNames \o AllIndicators

\* trained with a dropped first level per category, an engineered column
\* the form does not produce, no ratio column, indicators before numerics
SchemaReduced ==
    <<"loan_grade_G", "loan_grade_B", "loan_intent_EDUCATION",
      "loan_intent_MEDICAL", "person_home_ownership_RENT",
      "person_home_ownership_OWN", "income_per_year_employed",
      "loan_amnt", "person_age", "cb_person_default_on_file",
      "person_income", "loan_int_rate">>

\* short schemas: every duplicate-free column list up to MaxSchemaLen over
\* SchemaUniverse
MaxSchemaLen == 2

SchemaUniverse == {"person_age", "loan_grade_A", "unseen_feature"}

IsInjective(s) == \A i, j \in DOMAIN s : s[i] = s[j] => i = j

ShortSchemas ==
    UNION {{s \in [1..n -> SchemaUniverse] : IsInjective(s)} :
           n \in 1..MaxSchemaLen}

Schemas == {SchemaFull, SchemaReduced} \cup ShortSchemas

ModelFiles ==
    {[exists |-> FALSE, has_feature_names |-> FALSE, feature_names |-> <<>>,
      has_proba |-> FALSE]}
    \cup {[exists |-> TRUE, has_feature_names |-> FALSE,
           feature_names |-> <<>>, has_proba |-> hp] : hp \in BOOLEAN}
    \cup {[exists |-> TRUE, has_feature_names |-> TRUE, feature_names |-> s,
           has_proba |-> hp] : s \in Schemas, hp \in BOOLEAN}

\* probabilities predict_proba may return
Probabilities == {Zero, Frac(1, 2), One}

----------------------------------------------------------------------------
(* Script runs *)

NotFoundMessage == "FileNotFoundError: Model file not found at: Model/best_xgb.pkl"
JoblibMessage == "FileNotFoundError: [Errno 2] No such file or directory"

ApprovedMessage == "success:Loan Approved!"
NotApprovedMessage == "error:Loan Not Approved!"
ProbabilityLine == "info:Approval Probability"

\* line 124
ErrorMessage(e) == "error:Error during prediction: " \o e

\* exception classes raised inside the try block; all derive from Exception
Exceptions == {"AttributeError", "KeyError", "ZeroDivisionError", "ValueError",
               "XGBoostError"}

\* a handler that names only the model's own failures
Caught_narrow(e) == e \in {"ValueError", "XGBoostError"}

\* line 123: except Exception
Caught(e) == e \in Exceptions

\* the two messages swapped
DecisionMessage_swapped(label) ==
    IF label = 1 THEN NotApprovedMessage ELSE ApprovedMessage

\* lines 115-118
DecisionMessage(label) ==
    IF label = 1 THEN ApprovedMessage ELSE NotApprovedMessage

\* a fresh run of the script: nothing of the previous run survives
FreshRun ==
    /\ pc' = "start"
    /\ model' = None
    /\ rendered' = <<>>
    /\ concat_df' = <<>>
    /\ input_df' = <<>>
    /\ predict_arg' = None
    /\ prediction' = None
    /\ proba' = None
    /\ error' = None
    /\ fatal' = None

Init ==
    /\ modelFile \in ModelFiles
    /\ widgets = DefaultWidgets
    /\ button = FALSE
    /\ pc = "start"
    /\ model = None
    /\ rendered = <<>>
    /\ concat_df = <<>>
    /\ input_df = <<>>
    /\ predict_arg = None
    /\ prediction = None
    /\ proba = None
    /\ error = None
    /\ fatal = None

\* the user changes one widget; Streamlit reruns the script
EditWidget ==
    /\ pc = "idle"
    /\ \/ \E v \in AgeValues : widgets' = [widgets EXCEPT !.person_age = v]
       \/ \E v \in IncomeValues : widgets' = [widgets EXCEPT !.person_income = v]
       \/ \E v \in LoanAmntValues : widgets' = [widgets EXCEPT !.loan_amnt = v]
       \/ \E v \in Range(HomeOwnershipOptions) :
              widgets' = [widgets EXCEPT !.person_home_ownership = v]
       \/ \E v \in Range(DefaultOnFileOptions) :
              widgets' = [widgets EXCEPT !.cb_person_default_on_file = v]
       \/ \E v \in Range(LoanIntentOptions) :
              widgets' = [widgets EXCEPT !.loan_intent = v]
       \/ \E v \in Range(LoanGradeOptions) :
              widgets' = [widgets EXCEPT !.loan_grade = v]
    /\ widgets' # widgets
    /\ button' = FALSE
    /\ FreshRun
    /\ UNCHANGED modelFile

\* the user presses Predict; in the rerun st.button returns True
PressPredict ==
    /\ pc = "idle"
    /\ PredictButton \in Range(rendered)
    /\ button' = TRUE
    /\ FreshRun
    /\ UNCHANGED <<modelFile, widgets>>

\* the user reloads the page: a new session with the widgets' defaults
ReloadPage ==
    /\ pc \in {"idle", "aborted"}
    /\ widgets' = DefaultWidgets
    /\ button' = FALSE
    /\ FreshRun
    /\ UNCHANGED modelFile

\* the page title rendered before the model file is checked
Startup_late ==
    /\ pc = "start"
    /\ rendered' = <<FormElements[1]>>
    /\ IF ~modelFile.exists
         THEN /\ fatal' = <<NotFoundMessage>>
              /\ pc' = "aborted"
         ELSE /\ pc' = "load"
              /\ UNCHANGED fatal
    /\ UNCHANGED <<modelFile, widgets, button, model, concat_df,
                   input_df, predict_arg, prediction, proba, error>>

\* lines 9-12
Startup ==
    /\ pc = "start"
    /\ IF ~modelFile.exists
         THEN /\ fatal' = <<NotFoundMessage>>
              /\ pc' = "aborted"
         ELSE /\ pc' = "load"
              /\ UNCHANGED fatal
    /\ UNCHANGED <<modelFile, widgets, button, model, rendered, concat_df,
                   input_df, predict_arg, prediction, proba, error>>

\* line 14
LoadModel ==
    /\ pc = "load"
    /\ IF ~modelFile.exists
         THEN /\ fatal' = <<JoblibMessage>>
              /\ pc' = "aborted"
              /\ UNCHANGED model
         ELSE /\ model' = <<[has_feature_names |-> modelFile.has_feature_names,
                            feature_names_in_ |-> modelFile.feature_names,
                            has_proba |-> modelFile.has_proba]>>
              /\ pc' = "ui"
              /\ UNCHANGED fatal
    /\ UNCHANGED <<modelFile, widgets, button, rendered, concat_df, input_df,
                   predict_arg, prediction, proba, error>>

\* lines 19-64: the form, the warnings, the button
RenderUI ==
    /\ pc = "ui"
    /\ rendered' = rendered \o FormElements \o Warnings(widgets)
                            \o <<PredictButton>>
    /\ pc' = IF button THEN "try" ELSE "idle"
    /\ UNCHANGED <<modelFile, widgets, button, model, concat_df, input_df,
                   predict_arg, prediction, proba, error, fatal>>

Raise(e) ==
    /\ error' = <<e>>
    /\ pc' = "except"

\* lines 67-94
Assemble ==
    /\ pc = "try"
    /\ IF Divisor(widgets.person_income) = 0
         THEN /\ Raise("ZeroDivisionError")
              /\ UNCHANGED concat_df
         ELSE /\ concat_df' =
                    Concat(NumericDf(widgets,
                               DefaultOnFileBin(widgets.cb_person_default_on_file),
                               Frac(widgets.loan_amnt,
                                    Divisor(widgets.person_income))),
                           GetDummies(CatDf(widgets)))
              /\ pc' = "align"
              /\ UNCHANGED error
    /\ UNCHANGED <<modelFile, widgets, button, model, rendered, input_df,
                   predict_arg, prediction, proba, fatal>>

\* lines 97-103
Align ==
    /\ pc = "align"
    /\ IF ~model[1].has_feature_names
         THEN /\ Raise("AttributeError")
              /\ UNCHANGED input_df
         ELSE LET model_columns == model[1].feature_names_in_
                  filled == AddMissing(concat_df, model_columns)
              IN  IF \E i \in DOMAIN model_columns :
                         ~HasCol(filled, model_columns[i])
                    THEN /\ Raise("KeyError")
                         /\ UNCHANGED input_df
                    ELSE /\ input_df' = Reindex(filled, model_columns)
                         /\ pc' = "predict"
                         /\ UNCHANGED error
    /\ UNCHANGED <<modelFile, widgets, button, model, rendered, concat_df,
                   predict_arg, prediction, proba, fatal>>

\* line 106: the model rejects a frame whose columns are not the ones it was
\* trained on; otherwise it returns a label or fails internally
InvokePredict ==
    /\ pc = "predict"
    /\ predict_arg' = <<input_df>>
    /\ IF Columns(input_df) # model[1].feature_names_in_
         THEN /\ Raise("ValueError")
              /\ UNCHANGED prediction
         ELSE \/ /\ Raise("XGBoostError")
                 /\ UNCHANGED prediction
              \/ /\ \E label \in {0, 1} : prediction' = <<label>>
                 /\ pc' = "proba"
                 /\ UNCHANGED error
    /\ UNCHANGED <<modelFile, widgets, button, model, rendered, concat_df,
                   input_df, proba, fatal>>

\* the decision rendered before the probability is asked for
InvokeProba_afterDecision ==
    /\ pc = "proba"
    /\ rendered' = Append(rendered, DecisionMessage(prediction[1]))
    /\ IF model[1].has_proba
         THEN \/ /\ Raise("XGBoostError")
                 /\ UNCHANGED proba
              \/ /\ \E p \in Probabilities : proba' = <<p>>
                 /\ pc' = "render"
                 /\ UNCHANGED error
         ELSE /\ proba' = None
              /\ pc' = "render"
              /\ UNCHANGED error
    /\ UNCHANGED <<modelFile, widgets, button, model, concat_df,
                   input_df, predict_arg, prediction, fatal>>

\* lines 109-112
InvokeProba ==
    /\ pc = "proba"
    /\ IF model[1].has_proba
         THEN \/ /\ Raise("XGBoostError")
                 /\ UNCHANGED proba
              \/ /\ \E p \in Probabilities : proba' = <<p>>
                 /\ pc' = "render"
                 /\ UNCHANGED error
         ELSE /\ proba' = None
              /\ pc' = "render"
              /\ UNCHANGED error
    /\ UNCHANGED <<modelFile, widgets, button, model, rendered, concat_df,
                   input_df, predict_arg, prediction, fatal>>

\* lines 115-121
RenderResult ==
    /\ pc = "render"
    /\ rendered' = rendered \o <<DecisionMessage(prediction[1])>>
                     \o (IF proba # None THEN <<ProbabilityLine>> ELSE <<>>)
    /\ pc' = "idle"
    /\ UNCHANGED <<modelFile, widgets, button, model, concat_df, input_df,
                   predict_arg, prediction, proba, error, fatal>>

\* lines 123-124
HandleException ==
    /\ pc = "except"
    /\ IF Caught(error[1])
         THEN /\ rendered' = Append(rendered, ErrorMessage(error[1]))
              /\ pc' = "idle"
              /\ UNCHANGED fatal
         ELSE /\ fatal' = error
              /\ pc' = "aborted"
              /\ UNCHANGED rendered
    /\ UNCHANGED <<modelFile, widgets, button, model, concat_df, input_df,
                   predict_arg, prediction, proba, error>>

Next ==
    \/ EditWidget
    \/ PressPredict
    \/ ReloadPage
    \/ Startup
    \/ LoadModel
    \/ RenderUI
    \/ Assemble
    \/ Align
    \/ InvokePredict
    \/ InvokeProba
    \/ RenderResult
    \/ HandleException

Spec == Init /\ [][Next]_vars

----------------------------------------------------------------------------
(* The ratio of line 68 on incomes and amounts of any size, the ones the   *)
(* widgets refuse included: the try block entered with such a record.       *)

MaxIncome == 8
MaxLoanAmnt == 8

RatioInit ==
    /\ modelFile = [exists |-> TRUE, has_feature_names |-> TRUE,
                    feature_names |-> SchemaFull, has_proba |-> TRUE]
    /\ \E income \in (-1)..MaxIncome, amnt \in 0..MaxLoanAmnt :
           widgets = [DefaultWidgets EXCEPT !.person_income = income,
                                            !.loan_amnt = amnt]
    /\ button = TRUE
    /\ pc = "try"
    /\ model = <<[has_feature_names |-> TRUE, feature_names_in_ |-> SchemaFull,
                 has_proba |-> TRUE]>>
    /\ rendered = FormElements \o Warnings(widgets) \o <<PredictButton>>
    /\ concat_df = <<>>
    /\ input_df = <<>>
    /\ predict_arg = None
    /\ prediction = None
    /\ proba = None
    /\ error = None
    /\ fatal = None

RatioNext == Assemble

RatioSpec == RatioInit /\ [][RatioNext]_vars

----------------------------------------------------------------------------
(* Properties *)

Count(seq, x) == Cardinality({i \in DOMAIN seq : seq[i] = x})

Last(seq) == seq[Len(seq)]

Schema == model[1].feature_names_in_

\* the indicator columns of the values selected in the form
SelectedIndicators ==
    {"person_home_ownership_" \o widgets.person_home_ownership,
     "loan_intent_" \o widgets.loan_intent,
     "loan_grade_" \o widgets.loan_grade}

\* C1: the frame handed to model.predict has exactly the model's expected
\* columns, in the model's order, whatever was selected in the form.
C1_AlignedToSchema ==
    predict_arg # None =>
        /\ Len(predict_arg[1]) = Len(Schema)
        /\ \A i \in DOMAIN Schema : predict_arg[1][i].col = Schema[i]

C1_Witness ==
    /\ predict_arg # None
    /\ Schema = SchemaReduced
    /\ widgets.person_home_ownership = "MORTGAGE"
    /\ widgets.loan_grade = "G"
    /\ Columns(concat_df) # Schema

\* C2: after alignment a column the model expects and the encoding did not
\* produce is 0, a produced column the model does not expect is gone, and a
\* produced column the model expects keeps its value.
C2_AlignmentValues ==
    pc \in {"predict", "proba", "render"} =>
        /\ \A i \in DOMAIN input_df :
              /\ \E k \in DOMAIN Schema : Schema[k] = input_df[i].col
              /\ \A j \in DOMAIN concat_df :
                    concat_df[j].col = input_df[i].col
                        => input_df[i].val = concat_df[j].val
              /\ (\A j \in DOMAIN concat_df : concat_df[j].col # input_df[i].col)
                        => input_df[i].val = Zero
        /\ \A k \in DOMAIN Schema :
              \E i \in DOMAIN input_df : input_df[i].col = Schema[k]

C2_Witness ==
    /\ pc = "predict"
    /\ Schema = SchemaReduced
    /\ widgets.loan_intent = "VENTURE"
    /\ widgets.loan_grade = "B"
    /\ \E i \in DOMAIN input_df :
          input_df[i].col = "income_per_year_employed" /\ input_df[i].val = Zero
    /\ \E i \in DOMAIN input_df :
          input_df[i].col = "loan_grade_B" /\ input_df[i].val = One
    /\ \A i \in DOMAIN input_df : input_df[i].col # "loan_intent_VENTURE"

Scenario1 ==
    [person_age |-> 30, person_income |-> 50000, person_emp_length |-> 5,
     person_home_ownership |-> "RENT", cb_person_default_on_file |-> "N",
     cb_person_cred_hist_length |-> 10, loan_intent |-> "EDUCATION",
     loan_grade |-> "B", loan_amnt |-> 10000, loan_int_rate |-> <<25, 2>>,
     loan_percent_income |-> <<1, 5>>]

\* C3: in the frame handed to the model an indicator column is 1 exactly
\* when it is the column of a selected value, and 0 otherwise; for the
\* record of scenario 1 and a model trained on every column the RENT,
\* EDUCATION and B indicators are 1, the fourteen others 0, the default flag
\* 0 and the ratio 1/5.
C3_OneHot ==
    predict_arg # None =>
        /\ \A i \in DOMAIN predict_arg[1] :
              predict_arg[1][i].col \in Range(AllIndicators) =>
                  predict_arg[1][i].val =
                      IF predict_arg[1][i].col \in SelectedIndicators
                        THEN <<1, 1>> ELSE <<0, 1>>
        /\ (widgets = Scenario1 /\ Schema = SchemaFull) =>
              /\ Len(predict_arg[1]) = 26
              /\ predict_arg[1][8] = [col |-> "cb_person_default_on_file",
                                      val |-> <<0, 1>>]
              /\ predict_arg[1][9] = [col |-> "debt_to_income_ratio",
                                      val |-> <<1, 5>>]
              /\ \A i \in 10..26 :
                    predict_arg[1][i].val =
                        IF predict_arg[1][i].col \in
                               {"person_home_ownership_RENT",
                                "loan_intent_EDUCATION", "loan_grade_B"}
                          THEN <<1, 1>> ELSE <<0, 1>>
              /\ \E i \in 10..26 :
                    predict_arg[1][i].col = "person_home_ownership_RENT"
              /\ \E i \in 10..26 :
                    predict_arg[1][i].col = "loan_intent_EDUCATION"
              /\ \E i \in 10..26 : predict_arg[1][i].col = "loan_grade_B"

C3_Witness ==
    /\ predict_arg # None
    /\ widgets = Scenario1
    /\ Schema = SchemaFull

\* C4: the ratio is the loan amount over max(income, 1): the divisor is at
\* least 1, an income of 0 gives the loan amount itself, and the
\* computation never ends in a division by zero.
C4_DebtToIncomeRatio ==
    /\ error # <<"ZeroDivisionError">>
    /\ pc = "align" =>
          LET floor == IF widgets.person_income < 1 THEN 1
                       ELSE widgets.person_income
              ratio == concat_df[9]
          IN  /\ ratio.col = "debt_to_income_ratio"
              /\ ratio.val[2] > 0
              /\ ratio.val[1] * floor = widgets.loan_amnt * ratio.val[2]
              /\ widgets.person_income = 0 => ratio.val = <<widgets.loan_amnt, 1>>

C4_Witness ==
    /\ pc = "align"
    /\ widgets.person_income = 0
    /\ widgets.loan_amnt = 3
    /\ concat_df[9].val = <<3, 1>>

\* C5: an exception raised while the Predict action assembles, aligns or
\* invokes the model never leaves the action; it becomes one error message
\* carrying the exception text, rendered last, and the form with its Predict
\* button is still there and can be pressed again.
C5_FailuresCaught ==
    /\ error # None => pc \in {"except", "idle"} /\ fatal = None
    /\ (pc = "idle" /\ error # None) =>
          /\ Last(rendered) = "error:Error during prediction: " \o error[1]
          /\ Cardinality({i \in DOMAIN rendered :
                 \E e \in Exceptions :
                     rendered[i] = "error:Error during prediction: " \o e}) = 1
          /\ PredictButton \in Range(rendered)
          /\ ENABLED PressPredict

C5_Witness ==
    /\ pc = "idle"
    /\ error = <<"AttributeError">>
    /\ ~model[1].has_feature_names

\* C6: with a model that has no predict_proba the probability is None, no
\* exception results from that, the probability line is not rendered, and
\* the approved message is rendered exactly when the label is 1, the
\* not-approved message exactly when it is not.
C6_NoProbaInterface ==
    (model # None /\ ~model[1].has_proba) =>
        /\ proba = None
        /\ ProbabilityLine \notin Range(rendered)
        /\ pc = "render" => error = None
        /\ (pc = "idle" /\ prediction # None) =>
              /\ error = None
              /\ Count(rendered, ApprovedMessage)
                     = IF prediction[1] = 1 THEN 1 ELSE 0
              /\ Count(rendered, NotApprovedMessage)
                     = IF prediction[1] = 1 THEN 0 ELSE 1

C6_Witness ==
    /\ pc = "idle"
    /\ model # None
    /\ ~model[1].has_proba
    /\ prediction = <<1>>
    /\ ApprovedMessage \in Range(rendered)

\* C7: with the model file missing a run ends at the file check with the
\* message naming the path; nothing is rendered, the model is neither
\* loaded nor invoked.
C7_MissingModelFile ==
    ~modelFile.exists =>
        /\ pc \in {"start", "aborted"}
        /\ rendered = <<>>
        /\ model = None
        /\ predict_arg = None
        /\ prediction = None
        /\ pc = "aborted" => fatal = <<NotFoundMessage>>

C7_Witness ==
    /\ ~modelFile.exists
    /\ pc = "aborted"
    /\ fatal # None

\* C8: the global `model`, once loaded, is never assigned again.
C8_LoadedOnce == [][model # None => model' = model]_vars

\* the value a numeric widget holds, as entered
Entered(name) ==
    CASE name = "person_age" -> <<widgets.person_age, 1>>
      [] name = "person_income" -> <<widgets.person_income, 1>>
      [] name = "person_emp_length" -> <<widgets.person_emp_length, 1>>
      [] name = "loan_amnt" -> <<widgets.loan_amnt, 1>>
      [] name = "loan_int_rate" -> widgets.loan_int_rate
      [] name = "loan_percent_income" -> widgets.loan_percent_income
      [] name = "cb_person_cred_hist_length"
             -> <<widgets.cb_person_cred_hist_length, 1>>

EnteredNames ==
    {"person_age", "person_income", "person_emp_length", "loan_amnt",
     "loan_int_rate", "loan_percent_income", "cb_person_cred_hist_length"}

\* C9: a rendered warning blocks nothing: after a Predict press the run
\* assembles the features and, with a model that names its columns, calls
\* the model; the assembled frame and the frame the model gets carry every
\* entered number unchanged.
C9_WarningsAdvisory ==
    /\ (button /\ pc = "idle") =>
          /\ concat_df # <<>>
          /\ model[1].has_feature_names => predict_arg # None
    /\ \A i \in DOMAIN concat_df :
          concat_df[i].col \in EnteredNames
              => concat_df[i].val = Entered(concat_df[i].col)
    /\ \A n \in EnteredNames : concat_df # <<>> => HasCol(concat_df, n)
    /\ predict_arg # None =>
          \A i \in DOMAIN predict_arg[1] :
              predict_arg[1][i].col \in EnteredNames
                  => predict_arg[1][i].val = Entered(predict_arg[1][i].col)

C9_Witness ==
    /\ predict_arg # None
    /\ widgets.person_age = 18
    /\ "warning:Age should be between 20 and 75 years." \in Range(rendered)
    /\ \E i \in DOMAIN predict_arg[1] :
          predict_arg[1][i] = [col |-> "person_age", val |-> <<18, 1>>]

IsFailureMessage(x) ==
    \E e \in Exceptions : x = "error:Error during prediction: " \o e

\* C10: a run never shows a decision together with a failure: once a step of
\* the pipeline has raised, no approved, not-approved or probability line
\* is rendered, and the run ends with the failure message; a run in which
\* nothing raised ends with exactly one of the two decision messages and no
\* failure message.
C10_DecisionOrFailure ==
    /\ error # None =>
          /\ ApprovedMessage \notin Range(rendered)
          /\ NotApprovedMessage \notin Range(rendered)
          /\ ProbabilityLine \notin Range(rendered)
    /\ (pc = "idle" /\ error # None) => IsFailureMessage(Last(rendered))
    /\ (pc = "idle" /\ button /\ error = None) =>
          /\ Count(rendered, ApprovedMessage)
                 + Count(rendered, NotApprovedMessage) = 1
          /\ \A i \in DOMAIN rendered : ~IsFailureMessage(rendered[i])

C10_Witness ==
    /\ pc = "idle"
    /\ prediction # None
    /\ error = <<"XGBoostError">>
    /\ IsFailureMessage(Last(rendered))

====
